---- MODULE Spec2Model ----
(***************************************************************************)
(* A model of the titanic package: features.ColumnSelector (a column       *)
(* filter over pandas frames) and model.TitanicModel (fit / predict /      *)
(* evaluate / save / load around a library pipeline).                      *)
(*                                                                         *)
(* Every method is an operator from the receiver's fields and the call's   *)
(* arguments to the receiver's fields after the call and the call's        *)
(* outcome (the value returned or the exception raised); the actions apply *)
(* the methods to inputs drawn from bounded sets.                          *)
(***************************************************************************)
EXTENDS Integers, Sequences, FiniteSets, TLC

\* ------------------------------------------------------------------ bounds
\* Widest frame handed to a call.
MaxCols == 2
\* Longest list of labels a ColumnSelector is constructed with.
MaxSel == 2
\* Number of distinct fitted forests the library's training can produce.
MaxForests == 2

\* ------------------------------------------------------------- input data
\* Column labels: the two the model reads and one it does not.
Labels == {"Pclass", "Sex", "Age"}
\* The content of a column, abstracted to an identifier.
DataVals == {0, 1}

SeqsUpTo(S, n) == UNION {[1..k -> S] : k \in 0..n}

Column == [label : Labels, data : DataVals]

\* pandas.DataFrame values: an ordered list of labelled columns; labels may
\* repeat, as pandas allows.
Frames == {[type |-> "DataFrame", cols |-> c] : c \in SeqsUpTo(Column, MaxCols)}
\* Values that are not DataFrames: they carry no labelled columns.
NonFrames == {[type |-> t, cols |-> <<>>] : t \in {"ndarray", "list"}}

LabelsOf(cols) == {cols[i].label : i \in 1..Len(cols)}
LabelSeq(cols) == [i \in 1..Len(cols) |-> cols[i].label]
ElemsOf(s) == {s[i] : i \in 1..Len(s)}

\* ----------------------------------------------------------------- pandas
\* X[key] for a list key: every column of X labelled key[1], in X's order,
\* then every column labelled key[2], and so on.
RECURSIVE TakeColumns(_, _)
TakeColumns(cols, key) ==
    IF key = <<>> THEN <<>>
    ELSE SelectSeq(cols, LAMBDA c : c.label = Head(key))
         \o TakeColumns(cols, Tail(key))

\* X[key] raises KeyError when a label of key is no column of X.
GetItem(cols, key) ==
    IF ElemsOf(key) \subseteq LabelsOf(cols)
    THEN [exc |-> "", cols |-> TakeColumns(cols, key)]
    ELSE [exc |-> "KeyError", cols |-> <<>>]

\* ---------------------------------------------------------- ColumnSelector
\* selector: the fields of a ColumnSelector; ctor_columns: the argument its
\* constructor was given; sel_arg, sel_ret: the argument and the outcome of
\* the latest call on it.
VARIABLES selector, ctor_columns, sel_arg, sel_ret

SelOutcome(op, exc, text, names, cols, returned) ==
    [op |-> op, exc |-> exc, text |-> text, names |-> names, cols |-> cols,
     returned |-> returned]

ColumnSelector_init(columns) == [columns |-> columns]

ColumnSelector_fit(self, X) ==
    [self |-> self, ret |-> SelOutcome("fit", "", "", {}, <<>>, "self")]

\* A transform that, on a missing column, narrows self.columns to the labels
\* X has.
transform_KeepsPresent(self, X) ==
    IF X.type # "DataFrame"
    THEN [self |-> self,
          ret |-> SelOutcome("transform", "ValueError", "X is not a dataframe",
                             {}, <<>>, "")]
    ELSE LET got == GetItem(X.cols, self.columns) IN
         IF got.exc = ""
         THEN [self |-> self,
               ret |-> SelOutcome("transform", "", "", {}, got.cols, "frame")]
         ELSE [self |-> [columns |-> SelectSeq(self.columns,
                                       LAMBDA l : l \in LabelsOf(X.cols))],
               ret |-> SelOutcome("transform", "KeyError",
                             "The DataFrame does not include the columns: %s",
                             ElemsOf(self.columns) \ LabelsOf(X.cols),
                             <<>>, "")]

\* A transform that keeps the requested columns in the order X has them.
transform_XOrder(self, X) ==
    IF X.type # "DataFrame"
    THEN [self |-> self,
          ret |-> SelOutcome("transform", "ValueError", "X is not a dataframe",
                             {}, <<>>, "")]
    ELSE IF ElemsOf(self.columns) \subseteq LabelsOf(X.cols)
         THEN [self |-> self,
               ret |-> SelOutcome("transform", "", "", {},
                          SelectSeq(X.cols,
                                    LAMBDA c : c.label \in ElemsOf(self.columns)),
                          "frame")]
         ELSE [self |-> self,
               ret |-> SelOutcome("transform", "KeyError",
                             "The DataFrame does not include the columns: %s",
                             ElemsOf(self.columns) \ LabelsOf(X.cols),
                             <<>>, "")]

\* A transform whose KeyError lists every requested label.
transform_NamesRequested(self, X) ==
    IF X.type # "DataFrame"
    THEN [self |-> self,
          ret |-> SelOutcome("transform", "ValueError", "X is not a dataframe",
                             {}, <<>>, "")]
    ELSE LET got == GetItem(X.cols, self.columns) IN
         IF got.exc = ""
         THEN [self |-> self,
               ret |-> SelOutcome("transform", "", "", {}, got.cols, "frame")]
         ELSE [self |-> self,
               ret |-> SelOutcome("transform", "KeyError",
                             "The DataFrame does not include the columns: %s",
                             ElemsOf(self.columns), <<>>, "")]

\* A transform that looks the columns up before it tests the type of X.
transform_ColumnsFirst(self, X) ==
    LET got == GetItem(X.cols, self.columns) IN
    IF got.exc # ""
    THEN [self |-> self,
          ret |-> SelOutcome("transform", "KeyError",
                        "The DataFrame does not include the columns: %s",
                        ElemsOf(self.columns) \ LabelsOf(X.cols), <<>>, "")]
    ELSE IF X.type # "DataFrame"
         THEN [self |-> self,
               ret |-> SelOutcome("transform", "ValueError",
                                  "X is not a dataframe", {}, <<>>, "")]
         ELSE [self |-> self,
               ret |-> SelOutcome("transform", "", "", {}, got.cols, "frame")]

\* transform: the type check, then X[self.columns]; pandas' KeyError is
\* replaced by one whose message lists set(self.columns) - set(X.columns).
ColumnSelector_transform(self, X) ==
    IF X.type # "DataFrame"
    THEN [self |-> self,
          ret |-> SelOutcome("transform", "ValueError", "X is not a dataframe",
                             {}, <<>>, "")]
    ELSE LET got == GetItem(X.cols, self.columns) IN
         IF got.exc = ""
         THEN [self |-> self,
               ret |-> SelOutcome("transform", "", "", {}, got.cols, "frame")]
         ELSE [self |-> self,
               ret |-> SelOutcome("transform", "KeyError",
                             "The DataFrame does not include the columns: %s",
                             ElemsOf(self.columns) \ LabelsOf(X.cols),
                             <<>>, "")]

\* ------------------------------------------------------------ the library
\* self._estimator before any fit.
None ==
    [kind |-> "None", select_columns |-> <<>>, n_estimators |-> 0,
     fitted |-> FALSE, forest |-> 0]

ModelColumns == <<"Pclass", "Sex">>

AsFrame(cols) == [type |-> "DataFrame", cols |-> cols]

\* Pipeline.fit: the select_columns step, then the preprocessing and the
\* forest's training.  trained is what the training yields on the data it is
\* given: 0 when the library raises, else the forest it fitted.
Pipeline_fit(est, X, trained) ==
    LET sel == ColumnSelector_transform(
                   ColumnSelector_init(est.select_columns), X).ret IN
    IF sel.exc # "" THEN [est |-> est, exc |-> sel.exc]
    ELSE IF trained = 0 THEN [est |-> est, exc |-> "ValueError"]
    ELSE [est |-> [est EXCEPT !.fitted = TRUE, !.forest = trained],
          exc |-> ""]

\* Pipeline.predict: the select_columns step, which holds no fitted state,
\* then the fitted steps: an unfitted pipeline raises the library's own
\* NotFittedError, a fitted one answers from its forest and the selected
\* columns' content.
Pipeline_predict(est, X) ==
    LET sel == ColumnSelector_transform(
                   ColumnSelector_init(est.select_columns), X).ret IN
    IF sel.exc # "" THEN [exc |-> sel.exc, preds |-> <<>>]
    ELSE IF ~est.fitted THEN [exc |-> "NotFittedError", preds |-> <<>>]
    ELSE [exc |-> "",
          preds |-> <<est.forest>>
                    \o [i \in 1..Len(sel.cols) |-> sel.cols[i].data]]

\* ------------------------------------------------------------ TitanicModel
\* model: the fields of a TitanicModel; files: the file system, path ->
\* pickled bytes; ret: the outcome of the latest call.
\* fit_returned, last_fit_estimator: history of the instance, whether a fit
\* call has returned and the estimator the latest such call stored.
VARIABLES model, files, ret, fit_returned, last_fit_estimator

vars == <<selector, ctor_columns, sel_arg, sel_ret,
          model, files, ret, fit_returned, last_fit_estimator>>

DefaultTrees == 200
TreeCounts == {1, DefaultTrees}
Paths == {"model.pkl"}

NoObject == [cls |-> "NoneType", n_trees |-> 0, estimator |-> None]

Outcome(op, exc, text, returned) ==
    [op |-> op, exc |-> exc, text |-> text, returned |-> returned,
     preds |-> <<>>, delegate |-> None, had_cols |-> FALSE, cv_ran |-> FALSE,
     metrics |-> {}, path |-> "", obj |-> NoObject]

TitanicModel_init(n_trees) ==
    [cls |-> "TitanicModel", n_trees |-> n_trees, estimator |-> None]

get_params(self) == [n_trees |-> self.n_trees]

_build_estimator(self) ==
    [kind |-> "Pipeline", select_columns |-> ModelColumns,
     n_estimators |-> self.n_trees, fitted |-> FALSE, forest |-> 0]

\* fit: the new pipeline is stored first, then X[["Pclass", "Sex"]] is taken
\* and the pipeline is fitted in place.
TitanicModel_fit(self, X, trained) ==
    LET built == _build_estimator(self)
        sel == GetItem(X.cols, ModelColumns)
    IN  IF sel.exc # ""
        THEN [self |-> [self EXCEPT !.estimator = built],
              ret |-> Outcome("fit", sel.exc, "", "")]
        ELSE LET f == Pipeline_fit(built, AsFrame(sel.cols), trained) IN
             [self |-> [self EXCEPT !.estimator = f.est],
              ret |-> IF f.exc = "" THEN Outcome("fit", "", "", "self")
                      ELSE Outcome("fit", f.exc, "", "")]

\* An evaluate that refuses an unfitted model with predict's NotFitError.
evaluate_NotFitError(self, cv_ok) ==
    IF self.estimator = None
    THEN [self |-> self,
          ret |-> Outcome("evaluate", "NotFitError", "Model has not been fit", "")]
    ELSE [self |-> self,
          ret |-> IF cv_ok
                  THEN [Outcome("evaluate", "", "", "metrics")
                           EXCEPT !.cv_ran = TRUE, !.metrics = {"mse"}]
                  ELSE [Outcome("evaluate", "ValueError", "", "")
                           EXCEPT !.cv_ran = TRUE]]

\* An evaluate that replaces the stored estimator by a newly built one.
evaluate_Rebuilds(self, cv_ok) ==
    IF self.estimator = None
    THEN [self |-> self,
          ret |-> Outcome("evaluate", "ValueError", "Model has not been fit", "")]
    ELSE [self |-> [self EXCEPT !.estimator = _build_estimator(self)],
          ret |-> IF cv_ok
                  THEN [Outcome("evaluate", "", "", "metrics")
                           EXCEPT !.cv_ran = TRUE, !.metrics = {"mse"}]
                  ELSE [Outcome("evaluate", "ValueError", "", "")
                           EXCEPT !.cv_ran = TRUE]]

\* evaluate: refuses a model whose estimator is None; otherwise
\* cross_validate scores clones of the estimator on X and y, which go to the
\* library untouched (cv_ok: whether on them the library call returns scores
\* or raises), and the mean test score is returned.
TitanicModel_evaluate(self, cv_ok) ==
    IF self.estimator = None
    THEN [self |-> self,
          ret |-> Outcome("evaluate", "ValueError", "Model has not been fit", "")]
    ELSE [self |-> self,
          ret |-> IF cv_ok
                  THEN [Outcome("evaluate", "", "", "metrics")
                           EXCEPT !.cv_ran = TRUE, !.metrics = {"mse"}]
                  ELSE [Outcome("evaluate", "ValueError", "", "")
                           EXCEPT !.cv_ran = TRUE]]

\* predict: NotFitError only when the estimator is None; otherwise
\* X[["Pclass", "Sex"]] goes to the stored estimator's predict.
TitanicModel_predict(self, X) ==
    LET sel == GetItem(X.cols, ModelColumns)
        had == (sel.exc = "")
    IN  IF self.estimator = None
        THEN [self |-> self,
              ret |-> [Outcome("predict", "NotFitError",
                               "Model has not yet been fit", "")
                          EXCEPT !.had_cols = had]]
        ELSE IF sel.exc # ""
        THEN [self |-> self, ret |-> Outcome("predict", sel.exc, "", "")]
        ELSE LET p == Pipeline_predict(self.estimator, AsFrame(sel.cols)) IN
             [self |-> self,
              ret |-> [Outcome("predict", p.exc, "",
                               IF p.exc = "" THEN "predictions" ELSE "")
                          EXCEPT !.preds = p.preds,
                                 !.delegate = self.estimator,
                                 !.had_cols = had]]

\* joblib.dump / joblib.load: the object's class and fields, written out
\* field by field and read back in the same order.
joblib_dump(obj) ==
    <<obj.cls, obj.n_trees, obj.estimator.kind, obj.estimator.select_columns,
      obj.estimator.n_estimators, obj.estimator.fitted, obj.estimator.forest>>

joblib_load(bytes) ==
    [cls |-> bytes[1], n_trees |-> bytes[2],
     estimator |-> [kind |-> bytes[3], select_columns |-> bytes[4],
                    n_estimators |-> bytes[5], fitted |-> bytes[6],
                    forest |-> bytes[7]]]

Model_save(self, fs, file_path) ==
    [self |-> self,
     files |-> [fs EXCEPT ![file_path] = joblib_dump(self)],
     ret |-> [Outcome("save", "", "", "none") EXCEPT !.path = file_path]]

Model_load(fs, file_path) ==
    IF fs[file_path] = <<>>
    THEN [Outcome("load", "FileNotFoundError", "", "") EXCEPT !.path = file_path]
    ELSE [Outcome("load", "", "", "object")
             EXCEPT !.path = file_path, !.obj = joblib_load(fs[file_path])]

\* --------------------------------------------------------------- behaviour
SelectorIdle ==
    /\ sel_arg = AsFrame(<<>>)
    /\ sel_ret = SelOutcome("init", "", "", {}, <<>>, "")

ModelIdle ==
    /\ files = [p \in Paths |-> <<>>]
    /\ ret = Outcome("init", "", "", "")
    /\ fit_returned = FALSE
    /\ last_fit_estimator = None

Init ==
    /\ \E n \in TreeCounts : model = TitanicModel_init(n)
    /\ ModelIdle
    /\ selector = ColumnSelector_init(ModelColumns)
    /\ ctor_columns = ModelColumns
    /\ SelectorIdle

InitSelector ==
    /\ \E c \in SeqsUpTo(Labels, MaxSel) :
          /\ selector = ColumnSelector_init(c)
          /\ ctor_columns = c
    /\ SelectorIdle
    /\ model = TitanicModel_init(DefaultTrees)
    /\ ModelIdle

selVars == <<selector, ctor_columns, sel_arg, sel_ret>>
modelVars == <<model, files, ret, fit_returned, last_fit_estimator>>

SelFit ==
    \E X \in Frames \cup NonFrames :
        LET r == ColumnSelector_fit(selector, X) IN
        /\ selector' = r.self
        /\ sel_arg' = X
        /\ sel_ret' = r.ret
        /\ UNCHANGED <<ctor_columns, modelVars>>

SelTransform ==
    \E X \in Frames \cup NonFrames :
        LET r == ColumnSelector_transform(selector, X) IN
        /\ selector' = r.self
        /\ sel_arg' = X
        /\ sel_ret' = r.ret
        /\ UNCHANGED <<ctor_columns, modelVars>>

Fit ==
    \E X \in Frames, trained \in 0..MaxForests :
        LET r == TitanicModel_fit(model, X, trained) IN
        /\ model' = r.self
        /\ ret' = r.ret
        /\ fit_returned' = (fit_returned \/ r.ret.exc = "")
        /\ last_fit_estimator' =
               IF r.ret.exc = "" THEN r.self.estimator ELSE last_fit_estimator
        /\ UNCHANGED <<files, selVars>>

Predict ==
    \E X \in Frames :
        LET r == TitanicModel_predict(model, X) IN
        /\ model' = r.self
        /\ ret' = r.ret
        /\ UNCHANGED <<files, fit_returned, last_fit_estimator, selVars>>

Evaluate ==
    \E cv_ok \in BOOLEAN :
        LET r == TitanicModel_evaluate(model, cv_ok) IN
        /\ model' = r.self
        /\ ret' = r.ret
        /\ UNCHANGED <<files, fit_returned, last_fit_estimator, selVars>>

Save ==
    \E p \in Paths :
        LET r == Model_save(model, files, p) IN
        /\ model' = r.self
        /\ files' = r.files
        /\ ret' = r.ret
        /\ UNCHANGED <<fit_returned, last_fit_estimator, selVars>>

Load ==
    \E p \in Paths :
        /\ ret' = Model_load(files, p)
        /\ UNCHANGED <<model, files, fit_returned, last_fit_estimator, selVars>>

Next == Fit \/ Predict \/ Evaluate \/ Save \/ Load

NextSelector == SelFit \/ SelTransform

Spec == Init /\ [][Next]_vars

SpecSelector == InitSelector /\ [][NextSelector]_vars

\* ------------------------------------------------------------------ claims
\* C1: a predict on a model on which no fit call has returned (fit never
\* called, or called and raised) raises NotFitError and returns no
\* predictions.
C1_PredictBeforeFit ==
    (ret.op = "predict" /\ ~fit_returned)
        => (ret.exc = "NotFitError" /\ ret.returned = "" /\ ret.preds = <<>>)

\* C2: the stored estimator is None or a pipeline whose fit has completed;
\* never a pipeline that was built and not fitted.
C2_EstimatorNoneOrFitted ==
    \/ model.estimator = None
    \/ (model.estimator.kind = "Pipeline" /\ model.estimator.fitted)

PredictResult(obj, X) ==
    LET r == TitanicModel_predict(obj, X).ret IN <<r.exc, r.preds>>

\* C3: when a model on which a fit call has returned is saved to a path,
\* loading that path yields a TitanicModel with the same get_params and a
\* fitted estimator that predicts as the saved model does on every frame,
\* and the save leaves the model as it was.
C3_SaveLoadRoundTrip ==
    [][(ret'.op = "save" /\ fit_returned)
          => LET loaded == Model_load(files', ret'.path) IN
             /\ loaded.exc = ""
             /\ loaded.obj.cls = "TitanicModel"
             /\ get_params(loaded.obj) = get_params(model)
             /\ loaded.obj.estimator.fitted
             /\ \A X \in Frames :
                    PredictResult(loaded.obj, X) = PredictResult(model, X)
             /\ model' = model]_vars

\* C4: the stored estimator changes only at a fit call: predict, evaluate
\* and save leave it as it was, and a predict that reaches the library is
\* answered by that stored estimator.
C4_EstimatorChangesOnlyAtFit ==
    [][/\ (ret'.op \in {"predict", "evaluate", "save"}
              => model'.estimator = model.estimator)
       /\ (model'.estimator # model.estimator => ret'.op = "fit")
       /\ (ret'.op = "predict" /\ ret'.exc \notin {"NotFitError", "KeyError"}
              => ret'.delegate = model.estimator)]_vars

\* An evaluate ran its cross-validation on a fitted model, which still holds
\* the estimator its latest fit stored.
C4_Witness ==
    /\ ret.op = "evaluate"
    /\ ret.cv_ran
    /\ model.estimator.fitted
    /\ model.estimator = last_fit_estimator

\* No label of key is carried by more than one column of cols.
EachOnce(cols, key) ==
    \A l \in ElemsOf(key) :
        Cardinality({i \in 1..Len(cols) : cols[i].label = l}) = 1

TransformedFrameWithAll ==
    /\ sel_ret.op = "transform"
    /\ sel_arg.type = "DataFrame"
    /\ ElemsOf(selector.columns) \subseteq LabelsOf(sel_arg.cols)

\* C5: transform of a DataFrame that has every label of self.columns returns
\* a frame whose column labels are exactly self.columns, in that order.
C5_SelectsExactlyColumns ==
    TransformedFrameWithAll
        => /\ sel_ret.exc = ""
           /\ sel_ret.returned = "frame"
           /\ LabelSeq(sel_ret.cols) = selector.columns

\* C5, amended: transform of a DataFrame that has every label of
\* self.columns, each on one column only, returns a frame whose column
\* labels are exactly self.columns, in that order, each column being the
\* column of X that carries the label.
C5_SelectsExactlyColumnsWhenUnique ==
    (TransformedFrameWithAll /\ EachOnce(sel_arg.cols, selector.columns))
        => /\ sel_ret.exc = ""
           /\ sel_ret.returned = "frame"
           /\ LabelSeq(sel_ret.cols) = selector.columns
           /\ \A i \in 1..Len(sel_ret.cols) :
                  sel_ret.cols[i] \in ElemsOf(sel_arg.cols)

\* Two columns were selected in the order opposite to the one they have in X.
C5_Witness ==
    /\ TransformedFrameWithAll
    /\ EachOnce(sel_arg.cols, selector.columns)
    /\ Len(selector.columns) = 2
    /\ selector.columns[1] # selector.columns[2]
    /\ LabelSeq(sel_arg.cols) = <<selector.columns[2], selector.columns[1]>>
    /\ sel_ret.exc = ""

TransformedFrameLacking ==
    /\ sel_ret.op = "transform"
    /\ sel_arg.type = "DataFrame"
    /\ ~(ElemsOf(selector.columns) \subseteq LabelsOf(sel_arg.cols))

\* C6: transform of a DataFrame that lacks a label of self.columns raises
\* KeyError, returns no frame, and the message names a label exactly when it
\* is requested and is no column of X.
C6_KeyErrorNamesMissing ==
    TransformedFrameLacking
        => /\ sel_ret.exc = "KeyError"
           /\ sel_ret.returned = ""
           /\ sel_ret.cols = <<>>
           /\ \A l \in Labels :
                  l \in sel_ret.names
                      <=> (l \in ElemsOf(selector.columns)
                           /\ l \notin LabelsOf(sel_arg.cols))

\* X has one of the two requested labels and lacks the other.
C6_Witness ==
    /\ TransformedFrameLacking
    /\ ElemsOf(selector.columns) \cap LabelsOf(sel_arg.cols) # {}
    /\ sel_ret.exc = "KeyError"
    /\ Cardinality(sel_ret.names) = 1

\* C7: a fit that returns has returned the model itself, and once a fit has
\* returned, a predict on a frame with 'Pclass' and 'Sex' does not raise
\* NotFitError and is answered by the estimator the latest returning fit
\* stored.
C7_FitThenPredict ==
    /\ (ret.op = "fit" /\ ret.exc = "") => ret.returned = "self"
    /\ (ret.op = "predict" /\ fit_returned /\ ret.had_cols)
           => (ret.exc # "NotFitError" /\ ret.delegate = last_fit_estimator)

\* C8: fit returns the selector itself, columns stays what the constructor
\* was given whatever calls were made, and a transform answers as a selector
\* fresh from the constructor would on the same X.
C8_SelectorStateless ==
    /\ selector.columns = ctor_columns
    /\ sel_ret.op = "fit" => sel_ret.returned = "self"
    /\ sel_ret.op = "transform"
           => sel_ret = ColumnSelector_transform(
                            ColumnSelector_init(ctor_columns), sel_arg).ret

\* A transform raised KeyError and columns is what the constructor was given.
C8_Witness ==
    /\ sel_ret.op = "transform"
    /\ sel_ret.exc = "KeyError"
    /\ selector.columns = ctor_columns
    /\ ctor_columns # <<>>

\* C9: evaluate on a model whose estimator is None raises
\* ValueError('Model has not been fit') without running cross-validation,
\* returns no metrics and leaves the model as it was, where predict raises
\* NotFitError.
C9_EvaluateUnfitted ==
    [][(ret'.op = "evaluate" /\ model.estimator = None)
          => /\ ret'.exc = "ValueError"
             /\ ret'.text = "Model has not been fit"
             /\ ~ret'.cv_ran
             /\ ret'.metrics = {}
             /\ ret'.returned = ""
             /\ model'.estimator = None
             /\ get_params(model') = get_params(model)
             /\ \A X \in Frames :
                    TitanicModel_predict(model, X).ret.exc = "NotFitError"]_vars

\* An evaluate was refused on a model no fit call was made on.
C9_Witness ==
    /\ ret.op = "evaluate"
    /\ ret.exc = "ValueError"
    /\ ~ret.cv_ran
    /\ model.estimator = None

\* C10: transform of a value that is not a DataFrame raises
\* ValueError('X is not a dataframe') whatever self.columns is, never the
\* KeyError about missing columns, and returns nothing.
C10_NonFrameValueError ==
    (sel_ret.op = "transform" /\ sel_arg.type # "DataFrame")
        => /\ sel_ret.exc = "ValueError"
           /\ sel_ret.text = "X is not a dataframe"
           /\ sel_ret.returned = ""
           /\ sel_ret.cols = <<>>

\* A value that is not a DataFrame was refused by a selector whose columns
\* it does not have.
C10_Witness ==
    /\ sel_ret.op = "transform"
    /\ sel_arg.type # "DataFrame"
    /\ selector.columns # <<>>
    /\ sel_ret.exc = "ValueError"

====
